---- MODULE Spec2Model ----
(***************************************************************************)
(* Payment-confirmation and API-key provisioning workflow of the Price     *)
(* Alert API (src/server.js, with the key-validation middleware of its     *)
(* earlier revision src/unnamed/part_000).                                 *)
(*                                                                         *)
(* Conventions.  A value that JavaScript may leave undefined is an option: *)
(* << >> when absent, <<v>> when present.  Amounts of the settlement asset *)
(* are counted in hundredths of a coin.  Date.now() is observed at whole   *)
(* seconds, so a time is a number of seconds (1000 ms each).  Order ids    *)
(* and API keys are random hex strings in the code; here they are drawn    *)
(* as the least unused number.  The order's `created` timestamp is stored  *)
(* by the code and never read; the model leaves it out.                    *)
(***************************************************************************)
EXTENDS Integers, Sequences, FiniteSets, TLC

VARIABLES
    apiKeys,          \* Map: key -> {plan, callsRemaining, email, createdAt, expiresAt}
    pendingPayments,  \* Map: orderId -> {plan, email, address_in, status, apiKey, txid}
    priceCache,       \* Map: cacheKey -> {data, timestamp}
    now,              \* Date.now()
    mintedFor,        \* history: key -> the order whose webhook inserted it
    last,             \* the last request served and its response
    gateCalls,        \* requests in flight at validateApiKey, and their outcomes
    lookups           \* cache keys of the upstream requests awaiting their answer

vars == <<apiKeys, pendingPayments, priceCache, now, mintedFor, last, gateCalls, lookups>>

(* ------------------------------ bounds -------------------------------- *)
MaxOrders == 2
MaxKeys == 2
MaxSkew == 1
MaxUses == 1
MaxInitCalls == 1
MaxBatch == 1
MaxConcurrent == 2

(* ------------------------- program constants --------------------------- *)
API_KEY_VALIDITY_DAYS == 30
CACHE_TTL == 60000
TolerancePercent == 95
FreeTierCalls == 10

(* API_KEY_VALIDITY_DAYS * 24 * 60 * 60 * 1000 ms, in seconds *)
Validity == API_KEY_VALIDITY_DAYS * 24 * 60 * 60

None == << >>
Some(v) == <<v>>
OrElse(opt, default) == IF opt = None THEN default ELSE opt[1]

(* The plan catalog of /payment/create. *)
plans ==
    [ basic     |-> [price |-> 5,  calls |-> 1000,   name |-> "Basic"],
      pro       |-> [price |-> 15, calls |-> 10000,  name |-> "Pro"],
      unlimited |-> [price |-> 50, calls |-> 999999, name |-> "Unlimited"] ]

PlanSet == {plans[p] : p \in DOMAIN plans}

(* The value of a property that is not there (undefined), where a number   *)
(* is expected: no number at all.                                          *)
Undefined == -1

(* `plans` is an object literal, so plans[plan] also finds the members it  *)
(* inherits from Object.prototype: plans['constructor'] is the function    *)
(* Object, whose name is 'Object' and which has neither price nor calls.   *)
inherited ==
    [ constructor |-> [price |-> Undefined, calls |-> Undefined, name |-> "Object"] ]

(* plans[plan] || plans.basic *)
selectedPlan(plan) ==
    IF plan # None /\ plan[1] \in DOMAIN plans THEN plans[plan[1]]
    ELSE IF plan # None /\ plan[1] \in DOMAIN inherited THEN inherited[plan[1]]
    ELSE plans.basic

OrderIds == 1..MaxOrders
KeyIds == 1..MaxKeys

(* An id generator that hands out the same id again. *)
FirstOrderId == CHOOSE o \in OrderIds : \A p \in OrderIds : o <= p

(* crypto.randomBytes(8).toString('hex'): an id no stored order has. *)
FreshOrderId == CHOOSE o \in OrderIds \ DOMAIN pendingPayments :
                    \A p \in OrderIds \ DOMAIN pendingPayments : o <= p

(* A key generator that hands out the same key again. *)
FirstApiKey == CHOOSE k \in KeyIds : \A j \in KeyIds : k <= j

(* 'pk_' + crypto.randomBytes(16).toString('hex'): a key no record has. *)
FreshApiKey == CHOOSE k \in KeyIds \ DOMAIN apiKeys :
                    \A j \in KeyIds \ DOMAIN apiKeys : k <= j

Put(map, k, v) == [x \in DOMAIN map \cup {k} |-> IF x = k THEN v ELSE map[x]]

EmptyMap == [x \in {} |-> None]

(* ---------------------------- responses -------------------------------- *)
(* `last` is the request just served, as far as the properties below need  *)
(* it, and what the server did with it: the status code and body sent, and *)
(* whether the request went on (next() was called, or the handler ran).    *)
NoRequest ==
    [op |-> "none", code |-> 0, body |-> "", id |-> None, method |-> "",
     via |-> "", value_coin |-> None, pending |-> None, ran |-> FALSE, ctx |-> None]

Response(op, code, body) ==
    [NoRequest EXCEPT !.op = op, !.code = code, !.body = body]

(* No upstream request is in flight. *)
NoLookups == << >>

(* ------------------------------- Init ---------------------------------- *)
Init ==
    /\ apiKeys = EmptyMap
    /\ pendingPayments = EmptyMap
    /\ priceCache = EmptyMap
    /\ now = 0
    /\ mintedFor = EmptyMap
    /\ last = NoRequest
    /\ gateCalls = << >>
    /\ lookups = NoLookups

(* ------------------------------ clock ---------------------------------- *)
(* Time passes between requests: by one second, at most MaxSkew times in a *)
(* row, or by a whole validity window, once.                               *)
Tick ==
    /\ \/ /\ now % Validity < MaxSkew
          /\ now' = now + 1
       \/ /\ now < Validity
          /\ now' = now + Validity
    /\ UNCHANGED <<apiKeys, pendingPayments, priceCache, mintedFor, last, gateCalls, lookups>>

(* ----------------------- POST /payment/create -------------------------- *)
PlanSelectors == {None, Some("basic"), Some("pro"), Some("unlimited"), Some("gold")}
Emails == {None, Some("a@x")}
ProcessorAnswers == {"success", "error", "throw"}
DepositAddress == "ADDR1"

(* An order that forgets the contact email. *)
NewOrderNoEmail(plan, email) ==
    [ plan       |-> selectedPlan(plan),
      email      |-> None,
      address_in |-> DepositAddress,
      status     |-> "pending",
      apiKey     |-> None,
      txid       |-> None ]

(* pendingPayments.set(orderId, {...}) *)
NewOrder(plan, email) ==
    [ plan       |-> selectedPlan(plan),
      email      |-> email,          \* email || null
      address_in |-> DepositAddress,
      status     |-> "pending",
      apiKey     |-> None,
      txid       |-> None ]

(* The request body and what the processor answered to it. *)
CreateRequest(plan, email, answer) ==
    Some([plan |-> plan, email |-> email, answer |-> answer])

(* res.json({ orderId, plan, priceUSD, payment: { address, ... }, ... }) *)
Created(orderId, plan, email, answer) ==
    [Response("create", 200,
              [orderId  |-> orderId,
               plan     |-> selectedPlan(plan).name,
               priceUSD |-> selectedPlan(plan).price,
               address  |-> DepositAddress])
        EXCEPT !.id = Some(orderId), !.ctx = CreateRequest(plan, email, answer)]

(* res.status(500).json({ error }) *)
CreateFailed(plan, email, answer) ==
    [Response("create", 500,
              IF answer = "error" THEN "Failed to create payment address"
              ELSE "Payment service unavailable")
        EXCEPT !.ctx = CreateRequest(plan, email, answer)]

(* A test that takes every answer that arrives for a success. *)
SucceededUnlessThrown(answer) == answer # "throw"

(* axios.get resolved and response.data.status === 'success' *)
Succeeded(answer) == answer = "success"

Create(PlanChoices, EmailChoices, AnswerChoices) ==
    \E plan \in PlanChoices, email \in EmailChoices, answer \in AnswerChoices :
        /\ OrderIds \ DOMAIN pendingPayments # {}
        /\ LET orderId == FreshOrderId IN
           IF Succeeded(answer)
           THEN /\ pendingPayments' = Put(pendingPayments, orderId, NewOrder(plan, email))
                /\ last' = Created(orderId, plan, email, answer)
           ELSE /\ pendingPayments' = pendingPayments
                /\ last' = CreateFailed(plan, email, answer)
        /\ UNCHANGED <<apiKeys, priceCache, now, mintedFor, gateCalls, lookups>>

(* Any creation request, whatever the processor answers. *)
PaymentCreate == Create(PlanSelectors, Emails, ProcessorAnswers)

(* The purchases of a customer who names a plan of the catalog and gives   *)
(* an address.                                                             *)
PaymentOrder == Create({Some("basic"), Some("pro")}, {Some("a@x")}, ProcessorAnswers)

(* Any creation request, the selector being any string a client may send:  *)
(* also the name of a member every object has.                             *)
PaymentRequest ==
    Create(PlanSelectors \cup {Some("constructor")}, Emails, ProcessorAnswers)

(* ------------------------ ALL /payment/webhook ------------------------- *)
Methods == {"GET", "POST"}
Transports == {"query", "body"}
ValueCoins == {"4.74", "4.75", "14.3", "47.5"}
PendingCounts == {"0", "1"}
TxIds == {"tx1"}
Opt(S) == {None} \cup {Some(x) : x \in S}

(* parseFloat of the decimal strings above, in hundredths of a coin. *)
parseFloat(str) ==
    CASE str = "0"     -> 0
      [] str = "4.74"  -> 474
      [] str = "4.75"  -> 475
      [] str = "14.3"  -> 1430
      [] str = "47.5"  -> 4750

(* parseInt of the decimal strings above. *)
parseInt(str) ==
    CASE str = "0" -> 0
      [] str = "1" -> 1

NoFields == [value_coin |-> None, pending |-> None, txid_in |-> None]

(* The request as Express presents it: req.method, req.query, req.body     *)
(* (express.json() leaves req.body = {} when no body was sent).  `via` is  *)
(* where the processor put the payment fields f; the order id is part of   *)
(* the callback URL, so it is always in the query string.                  *)
WebhookRequest(method, via, order_id, f) ==
    [ method   |-> method,
      order_id |-> order_id,
      query    |-> IF via = "query" THEN f ELSE NoFields,
      body     |-> IF via = "body" THEN f ELSE NoFields ]

(* const data = req.method === 'GET' ? req.query : req.body *)
WebhookData(req) == IF req.method = "GET" THEN req.query ELSE req.body

(* pendingPayments.get(order_id) is not undefined *)
OrderFound(order_id) == order_id # None /\ order_id[1] \in DOMAIN pendingPayments

(* Confirms with the tolerance boundary left out (> for >=). *)
ConfirmsStrictly(payment, data) ==
    LET valueCoin == parseFloat(OrElse(data.value_coin, "0"))
        pending   == parseInt(OrElse(data.pending, "0"))
    IN  pending = 0 /\ valueCoin > payment.plan.price * TolerancePercent

(* pending === 0 && valueCoin >= payment.plan.price * 0.95, with valueCoin *)
(* in hundredths: v / 100 >= price * 95 / 100.  The products 5 * 0.95,     *)
(* 15 * 0.95 and 50 * 0.95 are exact in binary floating point.             *)
Confirms(payment, data) ==
    LET valueCoin == parseFloat(OrElse(data.value_coin, "0"))
        pending   == parseInt(OrElse(data.pending, "0"))
    IN  pending = 0 /\ valueCoin >= payment.plan.price * TolerancePercent

(* A key record whose expiry was computed once, when the server started. *)
NewKeyRecordFixedExpiry(payment) ==
    [ plan           |-> payment.plan.name,
      callsRemaining |-> payment.plan.calls,
      email          |-> payment.email,
      createdAt      |-> now,
      expiresAt      |-> Validity ]

(* The record apiKeys.set(apiKey, {...}) inserts. *)
NewKeyRecord(payment) ==
    [ plan           |-> payment.plan.name,
      callsRemaining |-> payment.plan.calls,
      email          |-> payment.email,
      createdAt      |-> now,
      expiresAt      |-> now + Validity ]

(* A completion that does not attach the key. *)
CompletedOrderNoKey(payment, apiKey, data) ==
    [payment EXCEPT !.status = "completed", !.txid = data.txid_in]

(* payment.status = 'completed'; payment.apiKey = apiKey; payment.txid = data.txid_in *)
CompletedOrder(payment, apiKey, data) ==
    [payment EXCEPT !.status = "completed", !.apiKey = Some(apiKey), !.txid = data.txid_in]

(* An acknowledgment that reports the processing outcome instead. *)
WebhookError == [code |-> 500, body |-> "error"]

(* res.status(200).send('*ok*'), the handler's last statement *)
WebhookAck == [code |-> 200, body |-> "*ok*"]

(* An unknown order answered as a lookup failure. *)
UnknownOrderNotFound == [code |-> 404, body |-> "Order not found"]

(* if (!payment) return res.status(200).send('*ok*') *)
UnknownOrderAck == [code |-> 200, body |-> "*ok*"]

WebhookLast(method, via, order_id, f, ack) ==
    [Response("webhook", ack.code, ack.body) EXCEPT
        !.id = order_id, !.method = method, !.via = via,
        !.value_coin = f.value_coin, !.pending = f.pending, !.ran = TRUE]

Webhook(MethodChoices, TransportChoices, ValueChoices, PendingChoices) ==
    \E method \in MethodChoices, via \in TransportChoices, order_id \in Opt(OrderIds),
       value_coin \in ValueChoices, pending \in PendingChoices, txid_in \in Opt(TxIds) :
        LET f    == [value_coin |-> value_coin, pending |-> pending, txid_in |-> txid_in]
            req  == WebhookRequest(method, via, order_id, f)
            data == WebhookData(req)
        IN
        IF ~OrderFound(req.order_id)
        THEN /\ last' = WebhookLast(method, via, order_id, f, UnknownOrderAck)
             /\ UNCHANGED <<apiKeys, pendingPayments, priceCache, now, mintedFor, gateCalls, lookups>>
        ELSE LET payment == pendingPayments[req.order_id[1]] IN
             IF Confirms(payment, data)
             THEN /\ KeyIds \ DOMAIN apiKeys # {}
                  /\ LET apiKey == FreshApiKey IN
                     /\ apiKeys' = Put(apiKeys, apiKey, NewKeyRecord(payment))
                     /\ pendingPayments' =
                            [pendingPayments EXCEPT
                                ![req.order_id[1]] = CompletedOrder(payment, apiKey, data)]
                     /\ mintedFor' = Put(mintedFor, apiKey, req.order_id[1])
                  /\ last' = WebhookLast(method, via, order_id, f, WebhookAck)
                  /\ UNCHANGED <<priceCache, now, gateCalls, lookups>>
             ELSE /\ last' = WebhookLast(method, via, order_id, f, WebhookAck)
                  /\ UNCHANGED <<apiKeys, pendingPayments, priceCache, now, mintedFor, gateCalls, lookups>>

(* Any callback: either method, the fields in the query string or in the   *)
(* body, any amount and counter, present or not.                           *)
PaymentWebhook ==
    Webhook(Methods, Transports, Opt(ValueCoins), Opt(PendingCounts))

(* The callbacks the processor sends by default: GET, the fields in the    *)
(* query string, the counter always there.                                 *)
PaymentCallback ==
    Webhook({"GET"}, {"query"}, {Some("4.75"), Some("47.5")},
            {Some(c) : c \in PendingCounts})

(* The callbacks for a payment that covers the price of any plan: seen     *)
(* but unconfirmed (pending 1), then confirmed (pending 0).                *)
PaymentNotice ==
    Webhook({"GET"}, {"query"}, {Some("47.5")}, {Some(c) : c \in PendingCounts})

(* -------------------- GET /payment/status/:orderId --------------------- *)
(* A status answer that never shows the key. *)
StatusBodyAlwaysPending(payment) ==
    [status |-> "pending", address |-> payment.address_in,
     plan |-> payment.plan.name, priceUSD |-> payment.plan.price]

(* The body for a stored order: the key once it is completed and has one,  *)
(* the deposit instructions until then.                                    *)
StatusBody(payment) ==
    IF payment.status = "completed" /\ payment.apiKey # None
    THEN [status |-> "completed", apiKey |-> payment.apiKey[1], plan |-> payment.plan.name]
    ELSE [status |-> "pending", address |-> payment.address_in,
          plan |-> payment.plan.name, priceUSD |-> payment.plan.price]

PaymentStatus ==
    \E orderId \in OrderIds :
        /\ last' = IF orderId \notin DOMAIN pendingPayments
                   THEN [Response("status", 404, [error |-> "Order not found"])
                            EXCEPT !.id = Some(orderId)]
                   ELSE [Response("status", 200, StatusBody(pendingPayments[orderId]))
                            EXCEPT !.id = Some(orderId)]
        /\ UNCHANGED <<apiKeys, pendingPayments, priceCache, now, mintedFor, gateCalls, lookups>>

(* ------------------- validateApiKey(req, res, next) -------------------- *)
(* The X-API-Key header may carry no key, a key no record has (0), or an   *)
(* issued key.                                                             *)
PresentedKeys == {None, Some(0)} \cup {Some(k) : k \in DOMAIN apiKeys}

(* A free tier ten times as generous. *)
FreeTierHundred == [calls |-> FreeTierCalls * FreeTierCalls, period |-> "hour"]

(* req.rateLimit = { calls: 10, period: 'hour' } *)
FreeTier == [calls |-> FreeTierCalls, period |-> "hour"]

(* The expiry comparison with its operands swapped. *)
ExpiredSwapped(keyData) == keyData.expiresAt > now

(* A key that is never found expired. *)
ExpiredNever(keyData) == FALSE

(* Date.now() > keyData.expiresAt *)
Expired(keyData) == now > keyData.expiresAt

(* Exhaustion that lets a key at zero through (< for <=). *)
ExhaustedBelowZero(keyData) == keyData.callsRemaining < 0

(* keyData.callsRemaining <= 0 *)
Exhausted(keyData) == keyData.callsRemaining <= 0

(* An accepted call that is not charged. *)
NotCharged(keyData) == keyData

(* keyData.callsRemaining-- *)
Charged(keyData) == [keyData EXCEPT !.callsRemaining = @ - 1]

(* The calls a key has been charged since it was issued. *)
CallsUsed(keyData) ==
    (CHOOSE p \in PlanSet : p.name = keyData.plan).calls - keyData.callsRemaining

(* A rejection that sends the error and then lets the request go on. *)
RejectionThenNext(apiKey, code, error) ==
    [Response("gate", code, error) EXCEPT !.id = apiKey, !.ran = TRUE]

(* return res.status(code).json({ error }) *)
Rejection(apiKey, code, error) ==
    [Response("gate", code, error) EXCEPT !.id = apiKey]

Continue(apiKey, ctx) ==
    [Response("gate", 0, "") EXCEPT !.id = apiKey, !.ran = TRUE, !.ctx = Some(ctx)]

(* validateApiKey for the request that presents apiKey: one synchronous    *)
(* run from the header read to res.status(...).json(...) or next().        *)
Validate(apiKey) ==
    /\ IF apiKey = None
       THEN /\ last' = Continue(apiKey, FreeTier)
            /\ apiKeys' = apiKeys
       ELSE IF apiKey[1] \notin DOMAIN apiKeys
       THEN /\ last' = Rejection(apiKey, 401, "Invalid API key")
            /\ apiKeys' = apiKeys
       ELSE LET keyData == apiKeys[apiKey[1]] IN
            IF Expired(keyData)
            THEN /\ last' = Rejection(apiKey, 401, "API key expired")
                 /\ apiKeys' = apiKeys
            ELSE IF Exhausted(keyData)
            THEN /\ last' = Rejection(apiKey, 429, "API calls exhausted")
                 /\ apiKeys' = apiKeys
            ELSE /\ \/ keyData.callsRemaining <= MaxInitCalls
                    \/ CallsUsed(keyData) < MaxUses
                 /\ apiKeys' = [apiKeys EXCEPT ![apiKey[1]] = Charged(keyData)]
                 /\ last' = Continue(apiKey, Charged(keyData))
    /\ UNCHANGED <<pendingPayments, priceCache, now, mintedFor>>

(* A request served on its own: it arrives and the gate runs at once. *)
ValidateApiKey ==
    \E apiKey \in PresentedKeys : Validate(apiKey) /\ UNCHANGED <<gateCalls, lookups>>

(* ---------------- concurrent requests at validateApiKey --------------- *)
(* A gate that gives way to other requests between its quota check and    *)
(* its decrement.                                                          *)
YieldsBeforeCharge == FALSE

(* validateApiKey is a synchronous function: no await, no callback between *)
(* its first statement and next(), so Node runs an invocation to its end   *)
(* before it starts another.                                               *)
RunsToCompletion == TRUE

(* The checks of validateApiKey let the stored key through. *)
Passes(apiKey) ==
    /\ apiKey[1] \in DOMAIN apiKeys
    /\ ~Expired(apiKeys[apiKey[1]])
    /\ ~Exhausted(apiKeys[apiKey[1]])

(* A request with a stored key arrives while the others of the burst are   *)
(* still waiting to be served; `quota` is what the key has left then.      *)
GateArrive ==
    \E k \in DOMAIN apiKeys :
        /\ Len(gateCalls) < MaxConcurrent
        /\ \A i \in DOMAIN gateCalls : gateCalls[i].outcome = "waiting"
        /\ gateCalls' = Append(gateCalls,
                               [apiKey  |-> Some(k),
                                quota   |-> apiKeys[k].callsRemaining,
                                outcome |-> "waiting"])
        /\ UNCHANGED <<apiKeys, pendingPayments, priceCache, now, mintedFor, last,
                       lookups>>

(* Node picks one of the requests in flight and runs its validateApiKey as *)
(* far as the code goes without giving way.                                *)
GateRun ==
    \E i \in DOMAIN gateCalls :
        LET call == gateCalls[i] IN
        /\ call.outcome \in {"waiting", "checked"}
        /\ UNCHANGED lookups
        /\ IF call.outcome = "waiting"
           THEN IF RunsToCompletion \/ ~Passes(call.apiKey)
                THEN /\ Validate(call.apiKey)
                     /\ gateCalls' = [gateCalls EXCEPT ![i].outcome =
                                         IF last'.ran THEN "accepted" ELSE "rejected"]
                ELSE /\ gateCalls' = [gateCalls EXCEPT ![i].outcome = "checked"]
                     /\ UNCHANGED <<apiKeys, pendingPayments, priceCache, now,
                                    mintedFor, last>>
           ELSE LET keyData == apiKeys[call.apiKey[1]] IN
                /\ apiKeys' = [apiKeys EXCEPT ![call.apiKey[1]] = Charged(keyData)]
                /\ last' = Continue(call.apiKey, Charged(keyData))
                /\ gateCalls' = [gateCalls EXCEPT ![i].outcome = "accepted"]
                /\ UNCHANGED <<pendingPayments, priceCache, now, mintedFor>>

(* ------------------------- price helpers ------------------------------- *)
Symbols == {"btc", "BTC"}
Prices == {100, 110}

toLowerCase(str) == IF str = "BTC" THEN "btc" ELSE str
toUpperCase(str) == IF str = "btc" THEN "BTC" ELSE str

(* What the upstream API answers: a quote, or nothing (error, timeout, no  *)
(* such symbol).                                                           *)
Upstream == Opt(Prices)

(* CACHE_TTL milliseconds, in seconds *)
CacheTtl == CACHE_TTL \div 1000

(* An entry that counts as fresh up to and including the age CACHE_TTL. *)
FreshUpToTtl(cache, cacheKey) ==
    cacheKey \in DOMAIN cache /\ now - cache[cacheKey].timestamp <= CacheTtl

(* cached && Date.now() - cached.timestamp < CACHE_TTL *)
Fresh(cache, cacheKey) ==
    cacheKey \in DOMAIN cache /\ now - cache[cacheKey].timestamp < CacheTtl

(* getCryptoPrice / getStockPrice: the cached data while the entry is      *)
(* younger than CACHE_TTL; else the upstream quote, cached when there is   *)
(* one; else null.  Yields the data returned and the entry written.        *)
getPrice(cache, cacheKey, upstream) ==
    IF Fresh(cache, cacheKey)
    THEN [data |-> Some(cache[cacheKey].data), write |-> None]
    ELSE IF upstream # None
    THEN [data  |-> Some([price |-> upstream[1]]),
          write |-> Some([data |-> [price |-> upstream[1]], timestamp |-> now])]
    ELSE [data |-> None, write |-> None]

getCryptoPrice(cache, symbol, upstream) == getPrice(cache, <<"crypto", symbol>>, upstream)
getStockPrice(cache, symbol, upstream) == getPrice(cache, <<"stock", symbol>>, upstream)

Written(cache, cacheKey, got) ==
    IF got.write = None THEN cache ELSE Put(cache, cacheKey, got.write[1])

(* The middleware Express runs before a route's handler: app.use(...) and  *)
(* the functions listed in the route.  validateApiKey is in neither.       *)
Middleware == {"express.json"}

Served(op, apiKey, code, body) ==
    [Response(op, code, body) EXCEPT !.id = apiKey, !.ran = TRUE]

(* -------------------- GET /price/:type/:symbol ------------------------- *)
PriceTypes == {"crypto", "stock", "bond"}

PriceLookup ==
    \E apiKey \in PresentedKeys, type \in PriceTypes, symbol \in Symbols,
       upstream \in Upstream :
        /\ IF type \notin {"crypto", "stock", "forex"}
           THEN /\ last' = Served("price", apiKey, 400,
                                  [error |-> "Type must be crypto, stock, or forex"])
                /\ priceCache' = priceCache
           ELSE LET cacheKey == IF type = "crypto" THEN <<"crypto", toLowerCase(symbol)>>
                                ELSE <<"stock", toUpperCase(symbol)>>
                    got == IF type = "crypto"
                           THEN getCryptoPrice(priceCache, toLowerCase(symbol), upstream)
                           ELSE getStockPrice(priceCache, toUpperCase(symbol), upstream)
                IN  /\ priceCache' = Written(priceCache, cacheKey, got)
                    /\ last' = IF got.data = None
                               THEN Served("price", apiKey, 404,
                                           [error |-> "Symbol not found or API error"])
                               ELSE Served("price", apiKey, 200,
                                           [type |-> type, symbol |-> toUpperCase(symbol),
                                            price |-> got.data[1].price])
        /\ UNCHANGED <<apiKeys, pendingPayments, now, mintedFor, gateCalls, lookups>>

(* ------------------------ POST /alert/check ---------------------------- *)
AlertTypes == {"crypto", "stock"}
Conditions == {"above", "below", "change"}
Thresholds == {100, 105}

(* A quote of 0: falsy, as a quote without a price is. *)
ZeroPrice == 0

(* What becomes of a request whose async handler threw: Express does not   *)
(* catch the rejected promise, so no status and no body are ever sent.     *)
Threw(op, apiKey) == Served(op, apiKey, Undefined, [error |-> "TypeError"])

(* `observed` keeps the request next to its response in `last`. *)
Alert(KeyChoices, UpstreamChoices, observed) ==
    \E apiKey \in KeyChoices, type \in Opt(AlertTypes), symbol \in Opt(Symbols),
       condition \in Opt(Conditions), threshold \in Opt(Thresholds),
       upstream \in UpstreamChoices :
        LET request == [type |-> type, symbol |-> symbol, condition |-> condition,
                        threshold |-> threshold, upstream |-> upstream]
            Answered(response) ==
                IF observed THEN [response EXCEPT !.ctx = Some(request)] ELSE response
        IN
        /\ IF type = None \/ symbol = None \/ condition = None \/ threshold = None
           THEN /\ last' = Answered(Served("alert", apiKey, 400,
                              [error |-> "Required: type, symbol, condition (above/below), threshold"]))
                /\ UNCHANGED <<apiKeys, pendingPayments, priceCache>>
           ELSE LET cacheKey == IF type[1] = "crypto"
                                THEN <<"crypto", toLowerCase(symbol[1])>>
                                ELSE <<"stock", toUpperCase(symbol[1])>>
                    got == IF type[1] = "crypto"
                           THEN getCryptoPrice(priceCache, toLowerCase(symbol[1]), upstream)
                           ELSE getStockPrice(priceCache, toUpperCase(symbol[1]), upstream)
                IN
                IF got.data = None
                THEN /\ last' = Answered(Served("alert", apiKey, 404,
                                                [error |-> "Symbol not found"]))
                     /\ priceCache' = Written(priceCache, cacheKey, got)
                     /\ UNCHANGED <<apiKeys, pendingPayments>>
                ELSE IF condition[1] \notin {"above", "below"}
                THEN /\ last' = Answered(Served("alert", apiKey, 400,
                                                [error |-> "Condition must be above or below"]))
                     /\ priceCache' = Written(priceCache, cacheKey, got)
                     /\ UNCHANGED <<apiKeys, pendingPayments>>
                ELSE IF got.data[1].price = ZeroPrice
                THEN \* price = data?.price || data is the object: price.toFixed throws
                     /\ last' = Answered(Threw("alert", apiKey))
                     /\ \/ /\ priceCache' = Written(priceCache, cacheKey, got)
                           /\ UNCHANGED <<apiKeys, pendingPayments>>
                        \/ \* the unhandled rejection ends the process
                           /\ priceCache' = EmptyMap
                           /\ apiKeys' = EmptyMap
                           /\ pendingPayments' = EmptyMap
                ELSE LET price == got.data[1].price IN
                     /\ last' = Answered(Served("alert", apiKey, 200,
                                     [price |-> price, threshold |-> threshold[1],
                                      condition |-> condition[1],
                                      triggered |-> IF condition[1] = "above"
                                                    THEN price >= threshold[1]
                                                    ELSE price <= threshold[1]]))
                     /\ priceCache' = Written(priceCache, cacheKey, got)
                     /\ UNCHANGED <<apiKeys, pendingPayments>>
        /\ UNCHANGED <<now, mintedFor, gateCalls, lookups>>

AlertCheck == Alert(PresentedKeys, Upstream, FALSE)

(* An alert check without a key, for quotes that may be 0. *)
AlertQuote == Alert({None}, Opt(Prices \cup {ZeroPrice}), TRUE)

(* ------------------------ POST /price/batch ---------------------------- *)
BatchItems == [type : AlertTypes, symbol : Symbols, upstream : Upstream]

(* The symbols arrays sent, each item with the answer upstream will give.  *)
BatchLists == UNION {[1..n -> BatchItems] : n \in 0..MaxBatch}

BatchKey(item) ==
    IF item.type = "crypto" THEN <<"crypto", toLowerCase(item.symbol)>>
    ELSE <<"stock", toUpperCase(item.symbol)>>

(* Every item looks the cache up before any upstream answer arrives. *)
BatchGot(item) ==
    IF item.type = "crypto"
    THEN getCryptoPrice(priceCache, toLowerCase(item.symbol), item.upstream)
    ELSE getStockPrice(priceCache, toUpperCase(item.symbol), item.upstream)

RECURSIVE BatchWritten(_, _)
BatchWritten(cache, items) ==
    IF items = << >> THEN cache
    ELSE BatchWritten(Written(cache, BatchKey(Head(items)), BatchGot(Head(items))),
                      Tail(items))

Reverse(seq) == [i \in 1..Len(seq) |-> seq[Len(seq) + 1 - i]]

BatchResult(item) ==
    [type |-> item.type, symbol |-> toUpperCase(item.symbol),
     price |-> IF BatchGot(item).data = None THEN None
               ELSE Some(BatchGot(item).data[1].price),
     error |-> BatchGot(item).data = None]

PriceBatch ==
    \E apiKey \in PresentedKeys :
        /\ \/ /\ last' = Served("batch", apiKey, 400,
                                [error |-> "Required: symbols array [{type, symbol}, ...]"])
              /\ priceCache' = priceCache
           \/ \E symbols \in BatchLists :
                /\ \E arrival \in {symbols, Reverse(symbols)} :
                      priceCache' = BatchWritten(priceCache, arrival)
                /\ last' = Served("batch", apiKey, 200,
                                  [results |-> [i \in 1..Len(symbols) |->
                                                   BatchResult(symbols[i])]])
        /\ UNCHANGED <<apiKeys, pendingPayments, now, mintedFor, gateCalls, lookups>>

(* ------------- getCryptoPrice / getStockPrice, step by step ------------ *)
(* Both functions are async: they run up to `await axios.get(...)`, give   *)
(* way to whatever else Node has to run, and resume when the upstream      *)
(* answer (or the error, or the timeout) is there.                         *)
MaxLookups == 2

LookupLast(cacheKey, phase, upstream, data) ==
    [Response("getPrice", 0, "") EXCEPT
        !.ctx = Some([cacheKey |-> cacheKey, phase |-> phase,
                      upstream |-> upstream, data |-> data])]

RemoveAt(seq, i) == [j \in 1..(Len(seq) - 1) |-> IF j < i THEN seq[j] ELSE seq[j + 1]]

(* From the call to the return of the cached data, or to the await. *)
LookupCall ==
    \E type \in AlertTypes, symbol \in Symbols :
        LET cacheKey == BatchKey([type |-> type, symbol |-> symbol]) IN
        /\ IF Fresh(priceCache, cacheKey)
           THEN /\ last' = LookupLast(cacheKey, "returned", None,
                                      Some(priceCache[cacheKey].data))
                /\ lookups' = lookups
           ELSE /\ Len(lookups) < MaxLookups
                /\ lookups' = Append(lookups, cacheKey)
                /\ last' = LookupLast(cacheKey, "awaiting", None, None)
        /\ UNCHANGED <<apiKeys, pendingPayments, priceCache, now, mintedFor, gateCalls>>

(* From the upstream answer to the return: a quote is cached under the    *)
(* time of its arrival; an error, a timeout or an answer without the       *)
(* symbol returns null.  Answers arrive in any order.                      *)
LookupAnswer ==
    \E i \in DOMAIN lookups, upstream \in Upstream :
        LET cacheKey == lookups[i]
            result   == [price |-> upstream[1]]
        IN
        /\ lookups' = RemoveAt(lookups, i)
        /\ IF upstream # None
           THEN /\ priceCache' = Put(priceCache, cacheKey,
                                     [data |-> result, timestamp |-> now])
                /\ last' = LookupLast(cacheKey, "answered", upstream, Some(result))
           ELSE /\ priceCache' = priceCache
                /\ last' = LookupLast(cacheKey, "answered", None, None)
        /\ UNCHANGED <<apiKeys, pendingPayments, now, mintedFor, gateCalls>>

(* Time passes: second by second around a multiple of CACHE_TTL, in one    *)
(* stride in between.                                                      *)
Age ==
    /\ now < CacheTtl + MaxSkew
    /\ now' = IF now % CacheTtl = MaxSkew
              THEN now + (CacheTtl - 1 - MaxSkew)
              ELSE now + 1
    /\ UNCHANGED <<apiKeys, pendingPayments, priceCache, mintedFor, last, gateCalls,
                   lookups>>

(* The stores after an order was paid and its key used for a while: the    *)
(* key may be down to its last calls.                                      *)
IssuedKey(PlanChoices, EmailChoices, TxChoices) ==
    /\ now = 0
    /\ \E plan \in PlanChoices, email \in EmailChoices, txid_in \in TxChoices :
          LET payment == NewOrder(plan, email)
              data    == [NoFields EXCEPT !.txid_in = txid_in]
          IN
          /\ pendingPayments = Put(EmptyMap, 1, CompletedOrder(payment, 1, data))
          /\ \E c \in {payment.plan.calls} \cup (0..MaxInitCalls) :
                apiKeys = Put(EmptyMap, 1,
                              [NewKeyRecord(payment) EXCEPT !.callsRemaining = c])
    /\ priceCache = EmptyMap
    /\ mintedFor = Put(EmptyMap, 1, 1)
    /\ last = [Response("status", 200, StatusBody(pendingPayments[1])) EXCEPT !.id = Some(1)]
    /\ gateCalls = << >>
    /\ lookups = NoLookups

InitIssuedKey == IssuedKey(PlanSelectors, Emails, Opt(TxIds))

InitApi == IssuedKey({Some("basic")}, {None}, {Some("tx1")})

(* The store after one successful order creation and a first status poll. *)
InitOneOrder ==
    /\ apiKeys = EmptyMap
    /\ \E plan \in PlanSelectors, email \in Emails :
          pendingPayments = Put(EmptyMap, 1, NewOrder(plan, email))
    /\ priceCache = EmptyMap
    /\ now = 0
    /\ mintedFor = EmptyMap
    /\ last = [Response("status", 200, StatusBody(pendingPayments[1])) EXCEPT !.id = Some(1)]
    /\ gateCalls = << >>
    /\ lookups = NoLookups

Next ==
    \/ Tick
    \/ PaymentCreate
    \/ PaymentCallback
    \/ PaymentStatus
    \/ ValidateApiKey

Spec == Init /\ [][Next]_vars

(* Orders, their callbacks, status polls and the use of their keys, all    *)
(* well inside the validity window of the keys.                            *)
NextLifecycle ==
    \/ PaymentOrder
    \/ PaymentNotice
    \/ PaymentStatus
    \/ ValidateApiKey

SpecLifecycle == Init /\ [][NextLifecycle]_vars

(* Order creations and status polls, one order paid and its key issued. *)
NextCreate ==
    \/ PaymentRequest
    \/ PaymentStatus

SpecCreate == InitIssuedKey /\ [][NextCreate]_vars

(* The processor's callbacks for one order, as time passes. *)
NextMint ==
    \/ PaymentCallback
    \/ Tick

SpecMint == InitOneOrder /\ [][NextMint]_vars

(* Callbacks and status polls for one order. *)
NextWebhook ==
    \/ PaymentWebhook
    \/ PaymentStatus

SpecWebhook == InitOneOrder /\ [][NextWebhook]_vars

(* Calls of the validation gate with an issued key, as time passes. *)
NextGate ==
    \/ ValidateApiKey
    \/ Tick

SpecGate == InitIssuedKey /\ [][NextGate]_vars

(* A burst of requests that present the issued key at the same time. *)
NextBurst ==
    \/ GateArrive
    \/ GateRun

SpecBurst == InitIssuedKey /\ [][NextBurst]_vars

(* Requests to the price endpoints, with or without a key, as time passes. *)
(* The price cache alone, from the empty cache of a fresh process. *)
NextCache ==
    \/ LookupCall
    \/ LookupAnswer
    \/ Age

SpecCache == Init /\ [][NextCache]_vars

(* The alert check alone, on a server that has issued one key. *)
NextAlert ==
    \/ AlertQuote

SpecAlert == InitApi /\ [][NextAlert]_vars

NextApi ==
    \/ PriceLookup
    \/ AlertCheck
    \/ PriceBatch
    \/ Tick

SpecApi == InitApi /\ [][NextApi]_vars

(* ===================== properties of the webhook ======================= *)
(* A step in which /payment/webhook served a request: time passes only     *)
(* between requests, and every other handler leaves its own mark in last.  *)
WebhookStep == last'.op = "webhook" /\ now' = now

KeysOf(o) == {k \in DOMAIN mintedFor : mintedFor[k] = o}

(* The payment fields of the last callback, wherever they travelled. *)
SentFields(l) == [value_coin |-> l.value_coin, pending |-> l.pending, txid_in |-> None]

(* The payment fields the handler read from the last callback. *)
ReadFields(l) == WebhookData(WebhookRequest(l.method, l.via, l.id, SentFields(l)))

(* The amount is at least 95% of the price: hundredths * 100 >= price * 9500. *)
AtLeast95Percent(value_coin, price) ==
    value_coin # None /\ parseFloat(value_coin[1]) * 100 >= price * 9500

(* C1: at most one API key is inserted into the Key Store on behalf of any *)
(* order, whatever callbacks arrive.                                       *)
C1_AtMostOneKeyPerOrder ==
    \A o \in DOMAIN pendingPayments : Cardinality(KeysOf(o)) <= 1

(* C2: a callback for an order that is already completed changes neither   *)
(* the order (key, transaction id) nor the Key Store, and is acknowledged. *)
C2_CompletedOrderUntouched ==
    [][ \A o \in DOMAIN pendingPayments :
          (WebhookStep /\ last'.id = Some(o) /\ pendingPayments[o].status = "completed")
          => /\ pendingPayments' = pendingPayments
             /\ apiKeys' = apiKeys
             /\ last'.code = 200 /\ last'.body = "*ok*" ]_vars

(* C3: a callback for a stored pending order that carries the pending      *)
(* counter completes the order, minting one key and attaching it, exactly  *)
(* when the counter is zero and the amount is at least 95% of the plan's   *)
(* price; otherwise both stores stay as they were.                         *)
C3_ConfirmsExactlyAtTolerance ==
    [][ \A o \in DOMAIN pendingPayments :
          LET payment == pendingPayments[o]
              data    == ReadFields(last')
          IN
          (WebhookStep /\ last'.id = Some(o) /\ payment.status = "pending"
             /\ data.pending # None)
          => IF data.pending = Some("0")
                /\ AtLeast95Percent(data.value_coin, payment.plan.price)
             THEN /\ pendingPayments'[o].status = "completed"
                  /\ \E k \in DOMAIN apiKeys' \ DOMAIN apiKeys :
                        /\ DOMAIN apiKeys' = DOMAIN apiKeys \cup {k}
                        /\ pendingPayments'[o].apiKey = Some(k)
                  /\ \A k \in DOMAIN apiKeys : apiKeys'[k] = apiKeys[k]
             ELSE pendingPayments' = pendingPayments /\ apiKeys' = apiKeys ]_vars

C3_Witness ==
    /\ last.op = "webhook" /\ last.id = Some(1)
    /\ ReadFields(last).pending = Some("0")
    /\ ReadFields(last).value_coin = Some("4.75")
    /\ pendingPayments[1].plan.price = 5
    /\ pendingPayments[1].status = "completed"
    /\ Cardinality(DOMAIN apiKeys) = 1

(* C4: a callback whose order id is not in the Order Store is acknowledged *)
(* and changes neither store, whatever payment fields it carries.          *)
C4_UnknownOrderNoEffect ==
    [][ (WebhookStep /\ ~OrderFound(last'.id))
        => /\ pendingPayments' = pendingPayments
           /\ apiKeys' = apiKeys
           /\ last'.code = 200 /\ last'.body = "*ok*" ]_vars

C4_Witness ==
    /\ last.op = "webhook" /\ last.id = Some(2) /\ ~OrderFound(last.id)
    /\ ReadFields(last).pending = Some("0")
    /\ ReadFields(last).value_coin = Some("47.5")

C6_TransportIndependent ==
    [][ \A o \in DOMAIN pendingPayments :
          (WebhookStep /\ last'.id = Some(o) /\ pendingPayments[o].status = "pending"
             /\ last'.pending # None)
          => (pendingPayments'[o].status = "completed"
                <=> /\ last'.pending = Some("0")
                    /\ AtLeast95Percent(last'.value_coin,
                                        pendingPayments[o].plan.price)) ]_vars

(* C28: a callback that does not carry the pending-confirmation counter in *)
(* the source the handler reads never completes an order, whatever amount  *)
(* it carries: the order and the Key Store stay as they were.              *)
C28_AbsentCounterNeverCompletes ==
    [][ \A o \in DOMAIN pendingPayments :
          (WebhookStep /\ last'.id = Some(o)
             /\ pendingPayments[o].status = "pending"
             /\ ReadFields(last').pending = None)
          => /\ pendingPayments'[o] = pendingPayments[o]
             /\ apiKeys' = apiKeys ]_vars

(* C26: every key of the Key Store is the key attached to exactly one      *)
(* completed order, so there are as many keys as completed orders.         *)
C26_EveryKeyAttachedToOneOrder ==
    LET completed == {o \in DOMAIN pendingPayments :
                        pendingPayments[o].status = "completed"}
    IN  /\ \A k \in DOMAIN apiKeys :
              Cardinality({o \in completed : pendingPayments[o].apiKey = Some(k)}) = 1
        /\ Cardinality(DOMAIN apiKeys) = Cardinality(completed)

(* ================== properties of the validation gate ================== *)
(* A step in which validateApiKey served a request. *)
GateStep == last'.op = "gate" /\ now' = now

(* C8: a gate call with a stored key that is not expired (now <= expiresAt) *)
(* and has at least one call left goes on and charges that key exactly one *)
(* call, no other key any; and once an accepted call has left the key at   *)
(* zero, the next call with it, the key still unexpired, is rejected 429.  *)
C8_AcceptedCallChargedOnce ==
    [][ \A k \in DOMAIN apiKeys :
          (GateStep /\ last'.id = Some(k) /\ now <= apiKeys[k].expiresAt)
          => /\ apiKeys[k].callsRemaining >= 1
                => /\ last'.ran
                   /\ apiKeys' = [apiKeys EXCEPT
                                    ![k].callsRemaining = apiKeys[k].callsRemaining - 1]
             /\ (last.op = "gate" /\ last.ran /\ last.id = Some(k)
                   /\ apiKeys[k].callsRemaining = 0)
                => (~last'.ran /\ last'.code = 429) ]_vars

C8_Witness ==
    /\ last.op = "gate" /\ last.ran /\ last.id = Some(1)
    /\ apiKeys[1].callsRemaining = 0
    /\ last.ctx = Some(apiKeys[1])

(* C9: a gate call with a stored key whose expiry is earlier than now is   *)
(* rejected 401 "expired" whatever calls the key has left, and the key     *)
(* record stays as it was.                                                 *)
C9_ExpiredKeyRejected ==
    [][ \A k \in DOMAIN apiKeys :
          (GateStep /\ last'.id = Some(k) /\ apiKeys[k].expiresAt < now)
          => /\ ~last'.ran
             /\ last'.code = 401 /\ last'.body = "API key expired"
             /\ apiKeys' = apiKeys ]_vars

C9_Witness ==
    /\ last.op = "gate" /\ last.id = Some(1) /\ ~last.ran
    /\ last.code = 401 /\ last.body = "API key expired"
    /\ apiKeys[1].expiresAt < now
    /\ apiKeys[1].callsRemaining > 0

(* C10: a gate call with a stored key that has no calls left and is not    *)
(* past its expiry (expiresAt >= now) is rejected 429, not 401, and the    *)
(* key record stays as it was.                                             *)
C10_ExhaustedKeyRejected ==
    [][ \A k \in DOMAIN apiKeys :
          (GateStep /\ last'.id = Some(k)
             /\ apiKeys[k].callsRemaining = 0 /\ apiKeys[k].expiresAt >= now)
          => /\ ~last'.ran
             /\ last'.code = 429 /\ last'.code # 401
             /\ apiKeys' = apiKeys ]_vars

C10_Witness ==
    /\ last.op = "gate" /\ last.id = Some(1) /\ ~last.ran
    /\ last.code = 429
    /\ apiKeys[1].callsRemaining = 0
    /\ apiKeys[1].expiresAt = now

(* C11 as stated: a gate call with a stored key that has no calls left is   *)
(* answered with the exhaustion outcome (429), also when the key is past   *)
(* its expiry.                                                             *)
C11_ExhaustedWhateverExpiry ==
    [][ \A k \in DOMAIN apiKeys :
          (GateStep /\ last'.id = Some(k) /\ apiKeys[k].callsRemaining = 0)
          => (~last'.ran /\ last'.code = 429) ]_vars

(* C11 amended: a gate call with a stored key that has no calls left is    *)
(* always rejected and leaves the key at zero: with 429 while the key is   *)
(* not past its expiry, with 401 "expired" once it is.                     *)
C11_ExhaustedKeyNeverAccepted ==
    [][ \A k \in DOMAIN apiKeys :
          (GateStep /\ last'.id = Some(k) /\ apiKeys[k].callsRemaining = 0)
          => /\ ~last'.ran
             /\ apiKeys' = apiKeys
             /\ last'.code = IF now > apiKeys[k].expiresAt THEN 401 ELSE 429 ]_vars

C11_Witness ==
    /\ last.op = "gate" /\ last.id = Some(1) /\ ~last.ran
    /\ apiKeys[1].callsRemaining = 0
    /\ now > apiKeys[1].expiresAt
    /\ last.code = 401

(* C12: a gate call that presents a key with no record (401), a key past   *)
(* its expiry (401) or a key with no calls left (429) does not let the     *)
(* request go on and leaves the Key Store and the Order Store as they were. *)
C12_RejectionChangesNothing ==
    [][ (GateStep /\ last'.id # None)
        => LET k == last'.id[1] IN
           /\ k \notin DOMAIN apiKeys
                => (~last'.ran /\ last'.code = 401 /\ last'.body = "Invalid API key"
                      /\ apiKeys' = apiKeys /\ pendingPayments' = pendingPayments)
           /\ (k \in DOMAIN apiKeys /\ now > apiKeys[k].expiresAt)
                => (~last'.ran /\ last'.code = 401 /\ last'.body = "API key expired"
                      /\ apiKeys' = apiKeys /\ pendingPayments' = pendingPayments)
           /\ (k \in DOMAIN apiKeys /\ now <= apiKeys[k].expiresAt
                  /\ apiKeys[k].callsRemaining <= 0)
                => (~last'.ran /\ last'.code = 429
                      /\ apiKeys' = apiKeys /\ pendingPayments' = pendingPayments) ]_vars

C12_Witness ==
    /\ last.op = "gate" /\ last.id = Some(0) /\ 0 \notin DOMAIN apiKeys
    /\ ~last.ran /\ last.code = 401 /\ last.body = "Invalid API key"
    /\ apiKeys[1].callsRemaining > 0 /\ now <= apiKeys[1].expiresAt

(* C21: a gate call that presents no key is not rejected: the request goes *)
(* on with the free-tier descriptor (10 calls per hour) attached, and the  *)
(* Key Store and the Order Store stay as they were, whatever calls came    *)
(* before.                                                                 *)
C21_KeylessCallContinues ==
    [][ (GateStep /\ last'.id = None)
        => /\ last'.ran
           /\ last'.code \notin {401, 429}
           /\ last'.ctx = Some([calls |-> 10, period |-> "hour"])
           /\ apiKeys' = apiKeys
           /\ pendingPayments' = pendingPayments ]_vars

C21_Witness ==
    /\ last.op = "gate" /\ last.id = None /\ last.ran
    /\ last.ctx = Some([calls |-> 10, period |-> "hour"])
    /\ apiKeys[1].callsRemaining = 0
    /\ now > apiKeys[1].expiresAt

(* C22: a gate call with an unexpired key issued for the unlimited plan is *)
(* never answered with the exhaustion outcome (429), however many calls    *)
(* the key has been charged.                                               *)
C22_UnlimitedNeverExhausted ==
    [][ \A k \in DOMAIN apiKeys :
          (GateStep /\ last'.id = Some(k)
             /\ apiKeys[k].plan = "Unlimited" /\ now <= apiKeys[k].expiresAt)
          => (last'.ran /\ last'.code # 429) ]_vars

(* C27: the remaining quota of every key is between 0 and the call quota   *)
(* of the plan the key was issued for, both included.                      *)
C27_QuotaWithinPlan ==
    \A k \in DOMAIN apiKeys :
        \E p \in PlanSet :
            /\ p.name = apiKeys[k].plan
            /\ apiKeys[k].callsRemaining \in 0..p.calls

C27_Witness ==
    /\ last.op = "gate" /\ last.id = Some(1) /\ last.ran
    /\ apiKeys[1].plan = "Pro"
    /\ apiKeys[1].callsRemaining = 0
    /\ now = apiKeys[1].expiresAt

(* The requests in flight that present key k. *)
CallsOf(k) == {i \in DOMAIN gateCalls : gateCalls[i].apiKey = Some(k)}

Min(a, b) == IF a <= b THEN a ELSE b

(* C14: of the requests that presented the same unexpired key when it had  *)
(* q calls left, in whatever order they are served, exactly min(n, q) of   *)
(* the n served so far went on, the key has q less that number left, and   *)
(* never less than zero; so of N requests min(N, q) are accepted.          *)
C14_BurstAcceptsMinOfCallsAndQuota ==
    \A k \in DOMAIN apiKeys :
        LET done     == {i \in CallsOf(k) : gateCalls[i].outcome \in {"accepted", "rejected"}}
            accepted == {i \in CallsOf(k) : gateCalls[i].outcome = "accepted"}
        IN  \A i \in CallsOf(k) :
                now <= apiKeys[k].expiresAt
                => /\ Cardinality(accepted) = Min(Cardinality(done), gateCalls[i].quota)
                   /\ apiKeys[k].callsRemaining = gateCalls[i].quota - Cardinality(accepted)
                   /\ apiKeys[k].callsRemaining >= 0

C14_Witness ==
    /\ Len(gateCalls) = 2
    /\ \A i \in DOMAIN gateCalls : gateCalls[i].apiKey = Some(1) /\ gateCalls[i].quota = 1
    /\ gateCalls[1].outcome = "rejected"
    /\ gateCalls[2].outcome = "accepted"
    /\ apiKeys[1].callsRemaining = 0

(* ===================== properties of the lifecycle ===================== *)
(* C13: from one state to the next, whatever request is served (order      *)
(* creation, callback, status query, gate call), every key record stays in *)
(* the Key Store and its remaining quota does not increase.                *)
C13_QuotaNeverIncreases ==
    [][ \A k \in DOMAIN apiKeys :
          /\ k \in DOMAIN apiKeys'
          /\ apiKeys'[k].callsRemaining <= apiKeys[k].callsRemaining ]_vars

C13_Witness ==
    /\ last.op = "webhook"
    /\ Cardinality(DOMAIN apiKeys) = 2
    /\ \E k \in DOMAIN apiKeys :
          /\ CallsUsed(apiKeys[k]) = 1
          /\ \E j \in DOMAIN apiKeys : j # k /\ mintedFor[j] = mintedFor[k]

(* C15: whatever request is served, a stored order stays stored and a      *)
(* completed order stays completed; so an order goes from pending to       *)
(* completed at most once and never back.                                  *)
C15_CompletedNeverReverts ==
    [][ \A o \in DOMAIN pendingPayments :
          /\ o \in DOMAIN pendingPayments'
          /\ pendingPayments[o].status = "completed"
                => pendingPayments'[o].status = "completed"
          /\ pendingPayments'[o].status \in {"pending", "completed"} ]_vars

C15_Witness ==
    /\ last.op = "webhook" /\ last.id = Some(1) /\ last.pending = Some("1")
    /\ DOMAIN pendingPayments = {1, 2}
    /\ pendingPayments[1].status = "completed"
    /\ pendingPayments[2].status = "pending"

(* C23: the remaining quota of a stored key changes only in a gate call    *)
(* that presents that very key and is accepted, and then by one; order     *)
(* creations, callbacks (also those that mint other keys), status queries, *)
(* rejected gate calls and gate calls with other keys leave it as it was.  *)
C23_QuotaChangedOnlyByOwnAcceptedCall ==
    [][ \A k \in DOMAIN apiKeys :
          /\ k \in DOMAIN apiKeys'
          /\ apiKeys'[k].callsRemaining # apiKeys[k].callsRemaining
                => /\ GateStep /\ last'.ran /\ last'.id = Some(k)
                   /\ apiKeys'[k].callsRemaining = apiKeys[k].callsRemaining - 1 ]_vars

C23_Witness ==
    /\ last.op = "gate" /\ last.id = Some(2) /\ last.ran
    /\ DOMAIN apiKeys = {1, 2}
    /\ CallsUsed(apiKeys[2]) = 1
    /\ CallsUsed(apiKeys[1]) = 0

(* C24: a stored order changes only in a callback that carries that        *)
(* order's own id; creations of other orders, status queries, gate calls   *)
(* and callbacks for other ids leave its plan, email, address, status, key *)
(* and transaction id as they were.                                        *)
C24_OrderChangedOnlyByOwnCallback ==
    [][ \A o \in DOMAIN pendingPayments :
          /\ o \in DOMAIN pendingPayments'
          /\ pendingPayments'[o] # pendingPayments[o]
                => (WebhookStep /\ last'.id = Some(o)) ]_vars

C24_Witness ==
    /\ last.op = "webhook" /\ last.id = Some(2) /\ last.pending = Some("0")
    /\ DOMAIN pendingPayments = {1, 2}
    /\ pendingPayments[2].status = "completed"
    /\ pendingPayments[1] = NewOrder(Some("pro"), Some("a@x"))

(* C25: an order is completed exactly when it holds a key; the key it      *)
(* holds is in the Key Store, with the name of the order's plan; and a     *)
(* status query for a completed order answers completed with that key.     *)
(* A completed order stays completed (C15), so this is what every status   *)
(* query made after the confirming callback returns.                       *)
C25_CompletedOrderYieldsStoredKey ==
    \A o \in DOMAIN pendingPayments :
        LET payment == pendingPayments[o] IN
        /\ payment.status = "completed" <=> payment.apiKey # None
        /\ payment.apiKey # None
              => /\ payment.apiKey[1] \in DOMAIN apiKeys
                 /\ apiKeys[payment.apiKey[1]].plan = payment.plan.name
        /\ (last.op = "status" /\ last.id = Some(o) /\ payment.status = "completed")
              => /\ last.code = 200
                 /\ last.body.status = "completed"
                 /\ Some(last.body.apiKey) = payment.apiKey
                 /\ last.body.apiKey \in DOMAIN apiKeys

C25_Witness ==
    /\ last.op = "status" /\ last.id = Some(1) /\ last.code = 200
    /\ last.body.status = "completed"
    /\ last.body.apiKey = 2
    /\ KeysOf(1) = {1, 2}
    /\ apiKeys[2].plan = pendingPayments[1].plan.name

(* ==================== properties of order creation ===================== *)
(* A step in which /payment/create served a request. *)
CreateStep == last'.op = "create" /\ now' = now

(* A step in which /payment/status/:orderId served a request. *)
StatusStep == last'.op = "status" /\ now' = now

(* C16: a creation the processor answered with success adds one order,     *)
(* under an id no order had: pending, without a key, with the plan the     *)
(* response summarises, the email of the request (none if none was given)  *)
(* and the processor's address; the other orders and the Key Store stay as *)
(* they were.  The order is stored in the state in which the response is   *)
(* sent, and a status query for a stored order is never answered 404.      *)
C16_CreationStoresOnePendingOrder ==
    [][ /\ (CreateStep /\ last'.ctx[1].answer = "success")
            => /\ last'.code = 200
               /\ LET o == last'.body.orderId IN
                  /\ o \notin DOMAIN pendingPayments
                  /\ DOMAIN pendingPayments' = DOMAIN pendingPayments \cup {o}
                  /\ \A p \in DOMAIN pendingPayments :
                        pendingPayments'[p] = pendingPayments[p]
                  /\ apiKeys' = apiKeys
                  /\ pendingPayments'[o].status = "pending"
                  /\ pendingPayments'[o].apiKey = None
                  /\ pendingPayments'[o].plan.name = last'.body.plan
                  /\ pendingPayments'[o].plan.price = last'.body.priceUSD
                  /\ pendingPayments'[o].email = last'.ctx[1].email
                  /\ pendingPayments'[o].address_in = DepositAddress
                  /\ last'.body.address = DepositAddress
        /\ (StatusStep /\ last'.id[1] \in DOMAIN pendingPayments)
            => last'.code = 200 ]_vars

C16_Witness ==
    /\ last.op = "create" /\ last.code = 200
    /\ last.body.orderId = 2
    /\ DOMAIN pendingPayments = {1, 2}
    /\ pendingPayments[1].status = "completed"
    /\ pendingPayments[2].status = "pending"
    /\ pendingPayments[2].plan = plans.pro
    /\ pendingPayments[2].email = Some("a@x")
    /\ DOMAIN apiKeys = {1}

(* C17: a creation whose processor call throws, times out or is answered   *)
(* with a status other than success is answered with a server error, and   *)
(* both stores stay as they were: no order is kept under the id generated.  *)
C17_FailedCreationStoresNothing ==
    [][ (CreateStep /\ last'.ctx[1].answer \in {"error", "throw"})
        => /\ last'.code = 500
           /\ last'.body \in {"Failed to create payment address",
                               "Payment service unavailable"}
           /\ pendingPayments' = pendingPayments
           /\ apiKeys' = apiKeys ]_vars

C17_Witness ==
    /\ last.op = "create" /\ last.code = 500
    /\ last.ctx[1].answer = "throw"
    /\ last.body = "Payment service unavailable"
    /\ DOMAIN pendingPayments = {1}
    /\ DOMAIN apiKeys = {1}

(* C18: a creation stores the plan the selector names when that is basic,  *)
(* pro or unlimited, and the basic plan for an absent selector and for any *)
(* other value; the selector never makes the creation fail and the stored  *)
(* plan is always one of the catalog.                                      *)
C18_UnknownSelectorFallsBack ==
    [][ (CreateStep /\ last'.ctx[1].answer = "success")
        => /\ last'.code = 200
           /\ LET selector == last'.ctx[1].plan
                  stored   == pendingPayments'[last'.body.orderId].plan
              IN  /\ stored = IF selector = Some("pro") THEN plans.pro
                              ELSE IF selector = Some("unlimited") THEN plans.unlimited
                              ELSE plans.basic
                  /\ stored \in PlanSet ]_vars

(* C19: a status query is answered 404 for an id no order has, with the    *)
(* attached key and the plan name for a completed order, and with pending  *)
(* status, deposit address, plan name and price for a pending order; it    *)
(* leaves both stores as they were, so the answer to a repeated query is   *)
(* the same until another request changes the stores.                      *)
C19_StatusQueryReadsOnly ==
    [][ StatusStep
        => LET o == last'.id[1] IN
           /\ pendingPayments' = pendingPayments
           /\ apiKeys' = apiKeys
           /\ o \notin DOMAIN pendingPayments => last'.code = 404
           /\ (o \in DOMAIN pendingPayments /\ pendingPayments[o].status = "completed")
                => /\ last'.code = 200
                   /\ last'.body.status = "completed"
                   /\ Some(last'.body.apiKey) = pendingPayments[o].apiKey
                   /\ last'.body.plan = pendingPayments[o].plan.name
           /\ (o \in DOMAIN pendingPayments /\ pendingPayments[o].status = "pending")
                => /\ last'.code = 200
                   /\ last'.body.status = "pending"
                   /\ last'.body.address = pendingPayments[o].address_in
                   /\ last'.body.plan = pendingPayments[o].plan.name
                   /\ last'.body.priceUSD = pendingPayments[o].plan.price ]_vars

C19_Witness ==
    /\ last.op = "status" /\ last.id = Some(1) /\ last.code = 200
    /\ pendingPayments[1].status = "completed"
    /\ last.body.status = "completed"
    /\ Some(last.body.apiKey) = pendingPayments[1].apiKey
    /\ Cardinality(DOMAIN apiKeys) = 2

(* C20: the key record a confirming callback inserts has the call quota of *)
(* the order's plan (1000, 10000 or 999999), the plan's name, the order's  *)
(* email (none if none was given) and an expiry 30 days after the time of  *)
(* the callback; and the step that completes an order is the step that     *)
(* inserts a key and attaches it to the order.                             *)
C20_MintedKeyMatchesOrder ==
    [][ \A o \in DOMAIN pendingPayments :
          (WebhookStep /\ last'.id = Some(o))
          => /\ \A k \in DOMAIN apiKeys' \ DOMAIN apiKeys :
                   /\ apiKeys'[k].callsRemaining = pendingPayments[o].plan.calls
                   /\ apiKeys'[k].callsRemaining \in {1000, 10000, 999999}
                   /\ apiKeys'[k].plan = pendingPayments[o].plan.name
                   /\ apiKeys'[k].email = pendingPayments[o].email
                   /\ apiKeys'[k].expiresAt = now + 30 * 24 * 60 * 60
                   /\ pendingPayments'[o].status = "completed"
                   /\ pendingPayments'[o].apiKey = Some(k)
             /\ (pendingPayments[o].status = "pending"
                   /\ pendingPayments'[o].status = "completed")
                => \E k \in DOMAIN apiKeys' \ DOMAIN apiKeys :
                       pendingPayments'[o].apiKey = Some(k) ]_vars

C20_Witness ==
    /\ last.op = "webhook" /\ last.id = Some(1)
    /\ pendingPayments[1].status = "completed"
    /\ pendingPayments[1].plan = plans.pro
    /\ pendingPayments[1].apiKey = Some(1)
    /\ now = 1
    /\ apiKeys[1] = [plan |-> "Pro", callsRemaining |-> 10000, email |-> Some("a@x"),
                     createdAt |-> 1, expiresAt |-> 2592001]

(* ================== properties of the price endpoints ================== *)
(* The gate would turn the presented key away: no such record, expired, or *)
(* no calls left.                                                          *)
GateWouldReject(apiKey) ==
    \/ apiKey[1] \notin DOMAIN apiKeys
    \/ Expired(apiKeys[apiKey[1]])
    \/ Exhausted(apiKeys[apiKey[1]])

(* C7: a request to a quota-consuming endpoint that presents an unknown,   *)
(* expired or exhausted key never reaches the endpoint's handler.          *)
C7_GateBeforeHandler ==
    (last.op \in {"price", "alert", "batch"} /\ last.id # None /\ GateWouldReject(last.id))
    => ~last.ran
(* ---------------------- properties of the price cache ------------------ *)
LookupStep == last'.op = "getPrice" /\ now' = now

(* C29: a lookup whose key has an entry younger than CACHE_TTL returns the *)
(* cached data, sends nothing upstream and leaves the cache alone; with no *)
(* entry, or one of age CACHE_TTL or more, it goes upstream; the entry is  *)
(* written, under the time of the write, only when upstream returned data, *)
(* and otherwise the lookup returns null and the cache is as it was.       *)
C29_CacheServesFreshElseUpstream ==
    [][ LookupStep =>
          LET l == last'.ctx[1]
              k == l.cacheKey
          IN
          IF l.phase = "answered"
          THEN IF l.upstream # None
               THEN /\ l.data = Some([price |-> l.upstream[1]])
                    /\ DOMAIN priceCache' = DOMAIN priceCache \cup {k}
                    /\ priceCache'[k] = [data |-> [price |-> l.upstream[1]],
                                         timestamp |-> now]
                    /\ \A c \in DOMAIN priceCache \ {k} : priceCache'[c] = priceCache[c]
               ELSE /\ l.data = None
                    /\ priceCache' = priceCache
          ELSE /\ priceCache' = priceCache
               /\ IF k \in DOMAIN priceCache /\ now - priceCache[k].timestamp < CacheTtl
                  THEN /\ l.phase = "returned"
                       /\ l.data = Some(priceCache[k].data)
                       /\ lookups' = lookups
                  ELSE /\ l.phase = "awaiting"
                       /\ lookups' = Append(lookups, k) ]_vars

(* A lookup went upstream for an entry that had just reached CACHE_TTL. *)
C29_Witness ==
    /\ last.op = "getPrice"
    /\ last.ctx[1].phase = "awaiting"
    /\ last.ctx[1].cacheKey \in DOMAIN priceCache
    /\ now - priceCache[last.ctx[1].cacheKey].timestamp = CacheTtl
    /\ lookups = <<last.ctx[1].cacheKey>>

(* ---------------------- properties of the alert check ------------------ *)
AlertStep == last'.op = "alert" /\ last'.ctx # None

(* The price the lookup of an alert check yields: the fresh cache entry's, *)
(* else the upstream quote, else none.                                     *)
Quoted(r) ==
    LET k == IF r.type[1] = "crypto" THEN <<"crypto", toLowerCase(r.symbol[1])>>
             ELSE <<"stock", toUpperCase(r.symbol[1])>>
    IN  IF k \in DOMAIN priceCache /\ now - priceCache[k].timestamp < CacheTtl
        THEN Some(priceCache[k].data.price)
        ELSE r.upstream

(* C30: an alert check without type, symbol, condition or threshold gets   *)
(* 400 before any price lookup; a condition other than above and below     *)
(* gets 400; otherwise, when there is a price, triggered is true exactly    *)
(* when above and price >= threshold, or below and price <= threshold.     *)
C30_AlertTriggersAtThreshold ==
    [][ AlertStep =>
          LET r == last'.ctx[1] IN
          IF r.type = None \/ r.symbol = None \/ r.condition = None \/ r.threshold = None
          THEN last'.code = 400 /\ priceCache' = priceCache
          ELSE IF r.condition[1] \notin {"above", "below"}
          THEN last'.code = 400
          ELSE Quoted(r) # None
               => /\ last'.code = 200
                  /\ last'.body.triggered =
                        \/ r.condition[1] = "above" /\ Quoted(r)[1] >= r.threshold[1]
                        \/ r.condition[1] = "below" /\ Quoted(r)[1] <= r.threshold[1] ]_vars

====
